---- MODULE Spec2Model ----
(***************************************************************************)
(* Attendance session engine of the VC backend: SessionService             *)
(* (create_session, create_general_session, check_in, check_out,           *)
(* end_session), LocationService (verify_location, create_session_event)   *)
(* and the Session model's check_in_time / check_out_time setters.         *)
(*                                                                         *)
(* The database is the pair (sessions, events): a commit makes the pending *)
(* changes of the calling request visible, a failed commit is followed by  *)
(* the handler's rollback.  A session's id is its index in `sessions`;     *)
(* id 0 stands for "no row" (None).  A failing commit stands for every     *)
(* exception raised between two commits of a handler: what was committed   *)
(* before stays, the rest is rolled back.                                  *)
(*                                                                         *)
(* Coordinates are held in metres of arc (1 degree = UnitsPerDegree), so   *)
(* the geodesic distance of two points that differ in one coordinate is    *)
(* the difference of that coordinate.                                      *)
(***************************************************************************)
EXTENDS Integers, Sequences, FiniteSets, TLC

VARIABLES
    meetings,   \* meetings table (read-only to the engine)
    sessions,   \* sessions table: sequence of session rows, id = index
    events,     \* session_events table: events[id] is the rows of session id,
                \* in insertion order
    workers,    \* the requests in flight: position, arguments, locals, result
    queue,      \* Redis sorted sets offline_queue:{user_id}: entries (member, score)
    failed,     \* Redis lists offline_failed:{user_id}, head first
    ttl,        \* expiry time of each Redis key in seconds, 0: none set
    clock,      \* the wall clock datetime.utcnow() reads
    issued,     \* the operation ids uuid4() has produced
    procs,      \* the process_user_queue calls in flight
    located     \* the last call of LocationService made on its own: the
                \* method, its arguments and what it returned

vars == <<meetings, sessions, events, workers, queue, failed, ttl, clock, issued, procs,
          located>>

\* the state of the session engine and the state of the offline queue
svars == <<meetings, sessions, events, workers>>
ovars == <<queue, failed, ttl, clock, issued, procs>>
lvars == <<located>>

\* ------------------------------------------------------------------ bounds
MaxSessions == 2
MaxEvents == 5
MaxNotes == 1
MaxTicks == 2       \* advances of the wall clock
MaxReads == 7       \* readings of the wall clock within one second
MaxQueue == 11      \* entries of one sorted set

\* --------------------------------------------------------------- constants
UnitsPerDegree == 111111
default_radius_meters == 100
max_radius_meters == 1000
min_accuracy_meters == 1000
TestRadius == 5000

None == 0

Contacts == {"c1", "c2"}
MeetingIds == {"m1", "m2"}
\* "m9" is an id no meeting row has; "None" is str(None) of a general session
AnyMeetingId == MeetingIds \cup {"m9"}
Times == {1}
Reasons == {"Manual end"}

\* OfflineOperation.__init__ and OfflineService
default_priority == 1
default_max_retries == 3
ScoreFactor == 1000000
QueueTTL == 7 * 24 * 60 * 60
FailedTTL == 30 * 24 * 60 * 60
max_operations == 10
Priorities == {default_priority, 2}
\* the ids uuid4() gives to the operations that are queued; the order of two
\* ids is the order of their texts
OpIds == {1, 2}

\* the wall clock: seconds since the epoch and microseconds; between two
\* requests it may advance by six days
Epoch == 1762000000
Advance == 6 * 24 * 60 * 60
datetime(sec, usec) == [sec |-> sec, usec |-> usec]

\* SessionStatus(str, Enum): a member is the str that is its value
ACTIVE == "active"
CHECKED_IN == "checked_in"
COMPLETED == "completed"
ENDED == "ended"
SessionStatus == {ACTIVE, CHECKED_IN, COMPLETED, ENDED}

\* A Python value that is compared with ==: a str, or a member of a plain
\* enum.Enum class.  A member of a plain Enum equals only itself, never the
\* str that is its value.
Str(s) == [cls |-> "str", value |-> s]
Member(c, s) == [cls |-> c, value |-> s]

\* EventType(enum.Enum)
CHECK_IN == Member("EventType", "check_in")
CHECK_OUT == Member("EventType", "check_out")
LOCATION_UPDATE == Member("EventType", "location_update")
STATUS_CHANGE == Member("EventType", "status_change")
EventType == {CHECK_IN, CHECK_OUT, LOCATION_UPDATE, STATUS_CHANGE}

\* A row of meetings.  A name is the sequence of its words.
Meeting(name, lat, lng, radius_meters, is_active) ==
    [name |-> name, lat |-> lat, lng |-> lng, radius_meters |-> radius_meters,
     is_active |-> is_active]

\* The meetings table the model starts from: an active and an inactive
\* meeting with the default geofence.
InitMeetings ==
    [m \in MeetingIds |->
        IF m = "m1" THEN Meeting(<<"Real", "Meeting">>, 0, 0, 100, TRUE)
        ELSE Meeting(<<"Inactive", "Meeting">>, 0, 0, 100, FALSE)]

\* LocationData samples a client submits: accuracy is <<>> (None) or <<a>>
LocationData(lat, lng, acc) == [latitude |-> lat, longitude |-> lng, accuracy |-> acc]
Samples ==
    { LocationData(0, 0, <<10>>),       \* at the centre
      LocationData(150, 0, <<>>) }      \* 150 m away

\* ------------------------------------------------------------ pure helpers
Abs(x) == IF x < 0 THEN -x ELSE x
Min(a, b) == IF a <= b THEN a ELSE b
Max(a, b) == IF a >= b THEN a ELSE b

\* "AYA Demo" in meeting.name
RECURSIVE ContainsAt(_, _, _)
ContainsAt(name, pat, i) ==
    IF i + Len(pat) - 1 > Len(name) THEN FALSE
    ELSE IF \A k \in 1..Len(pat) : name[i + k - 1] = pat[k] THEN TRUE
    ELSE ContainsAt(name, pat, i + 1)

NameContains(name, pat) == ContainsAt(name, pat, 1)

\* geopy's Point: a longitude beyond +-180 degrees is wrapped into
\* [-180, 180) (fmod keeps the sign of its argument)
LngMax == 180 * UnitsPerDegree

_normalize_angle(x, limit) ==
    LET modulo == IF x >= 0 THEN x % (2 * limit) ELSE -((-x) % (2 * limit))
    IN  IF modulo < -limit THEN modulo + 2 * limit
        ELSE IF modulo >= limit THEN modulo - 2 * limit
        ELSE modulo

Longitude(lng) == IF Abs(lng) > LngMax THEN _normalize_angle(lng, LngMax) ELSE lng

\* geodesic(a, b).meters
geodesic(lat1, lng1, lat2, lng2) ==
    Abs(lat1 - lat2) + Abs(Longitude(lng1) - Longitude(lng2))

\* --------------------------------------------------------- LocationService
Infinity == 1000000000
LatMax == 90 * UnitsPerDegree

\* a confidence is the exact fraction num / den
ProximityResult(within, dist, num, den) ==
    [is_within_range |-> within, distance_meters |-> dist,
     accuracy_confidence |-> [num |-> num, den |-> den]]

FailClosed == ProximityResult(FALSE, Infinity, 0, 1)

\* a confidence that is 1.0 whenever the accuracy is perfect
_calculate_accuracy_confidence_perfect(distance, radius, gps_accuracy) ==
    LET base == radius - Min(distance, radius)
        factor == IF gps_accuracy = <<>> THEN min_accuracy_meters
                  ELSE Max(0, min_accuracy_meters - gps_accuracy[1])
        num == IF gps_accuracy = <<0>> /\ distance <= radius
               THEN radius * min_accuracy_meters ELSE base * factor
        den == radius * min_accuracy_meters
    IN [num |-> Max(0, Min(den, num)), den |-> den]

\* max(0.0, min(1.0, (1 - min(distance / radius, 1.0)) * max(0.0, 1 - acc / min_accuracy)))
\* as num / den with den = radius * min_accuracy_meters (radius > 0)
_calculate_accuracy_confidence(distance, radius, gps_accuracy) ==
    LET base == radius - Min(distance, radius)
        factor == IF gps_accuracy = <<>> THEN min_accuracy_meters
                  ELSE Max(0, min_accuracy_meters - gps_accuracy[1])
        num == base * factor
        den == radius * min_accuracy_meters
    IN [num |-> Max(0, Min(den, num)), den |-> den]

\* LocationService.verify_location: geodesic() raises ValueError for a
\* latitude outside [-90, 90], which the handler turns into the fail-closed
\* result
verify_location(mt, user_lat, user_lng, meeting_id, required_accuracy) ==
    IF meeting_id \notin DOMAIN mt THEN FailClosed
    ELSE IF Abs(user_lat) > LatMax THEN FailClosed
    ELSE
        LET meeting == mt[meeting_id]
            distance == geodesic(meeting.lat, meeting.lng, user_lat, user_lng)
            r0 == IF meeting.radius_meters # 0 THEN meeting.radius_meters
                  ELSE default_radius_meters
            radius == IF r0 > max_radius_meters THEN r0
                      ELSE Min(r0, max_radius_meters)
            conf == _calculate_accuracy_confidence(distance, radius, required_accuracy)
        IN ProximityResult(distance <= radius, distance, conf.num, conf.den)

\* a row of session_events
\* (an optional column is <<>> for None or <<v>>)
SessionEvent(sid, type, ts_client, lat, lng, accuracy, notes) ==
    [session_id |-> sid, type |-> type, ts_client |-> ts_client,
     lat |-> lat, lng |-> lng, accuracy |-> accuracy, notes |-> notes]

\* a create_session_event that trusts its caller's verification
create_session_event_unverified(mt, ev, session_id, event_type, location_data, meeting_id, fault) ==
    LET session_event == SessionEvent(session_id, event_type, <<>>,
                                <<location_data.latitude>>, <<location_data.longitude>>,
                                location_data.accuracy, <<>>)
    IN  IF fault THEN [events |-> ev, event |-> None]
        ELSE [events |-> [ev EXCEPT ![session_id] = Append(@, session_event)],
              event |-> Len(ev[session_id]) + 1]

\* LocationService.create_session_event: verifies the location again, then
\* inserts the event and commits.  `fault` is a failing commit.
\* Result: the events table and the position of the new event in the
\* session's rows (None if there is none).
create_session_event(mt, ev, session_id, event_type, location_data, meeting_id, fault) ==
    LET proximity_result == verify_location(mt, location_data.latitude,
                                location_data.longitude, meeting_id,
                                location_data.accuracy)
        session_event == SessionEvent(session_id, event_type, <<>>,
                                <<location_data.latitude>>, <<location_data.longitude>>,
                                location_data.accuracy, <<>>)
    IN  IF event_type \in {CHECK_IN, CHECK_OUT} /\ ~proximity_result.is_within_range
        THEN [events |-> ev, event |-> None]
        ELSE IF fault THEN [events |-> ev, event |-> None]
        ELSE [events |-> [ev EXCEPT ![session_id] = Append(@, session_event)],
              event |-> Len(ev[session_id]) + 1]

\* ------------------------------------------------------------ Session model
FirstOf(S) == CHOOSE i \in S : \A j \in S : i <= j

\* setters whose comparison of event.type with a str matches the member of
\* that value
SetEventTime_by_value(ev, sid, type_str, type, value) ==
    LET loaded == ev[sid]
        matching == {i \in 1..Len(loaded) : loaded[i].type.value = type_str}
    IN  IF loaded = <<>> THEN ev
        ELSE IF matching # {}
             THEN [ev EXCEPT ![sid][FirstOf(matching)].ts_client = <<value>>]
             ELSE [ev EXCEPT ![sid] = Append(@, SessionEvent(sid, type, <<value>>,
                                                             <<>>, <<>>, <<>>, <<>>))]

\* The setters of Session.check_in_time / check_out_time with a value that is
\* not None.  `type_str` is the str the setter compares event.type with and
\* `type` the EventType member it creates an event with.
SetEventTime(ev, sid, type_str, type, value) ==
    LET loaded == ev[sid]
        matching == {i \in 1..Len(loaded) : loaded[i].type = Str(type_str)}
    IN  IF loaded = <<>> THEN ev
        ELSE IF matching # {}
             THEN [ev EXCEPT ![sid][FirstOf(matching)].ts_client = <<value>>]
             ELSE [ev EXCEPT ![sid] = Append(@, SessionEvent(sid, type, <<value>>,
                                                             <<>>, <<>>, <<>>, <<>>))]

set_check_in_time(ev, sid, value) == SetEventTime(ev, sid, "check_in", CHECK_IN, value)

set_check_out_time(ev, sid, value) == SetEventTime(ev, sid, "check_out", CHECK_OUT, value)

\* ----------------------------------------------------------- SessionService
\* a row of sessions, as Session(...) builds it
Session(contact_id, meeting_id, dest_name) ==
    [contact_id |-> contact_id, meeting_id |-> meeting_id, status |-> ACTIVE,
     is_complete |-> FALSE, session_notes |-> <<>>, dest_name |-> dest_name]

\* what a call returns or raises
Ret(kind, id, msg) == [kind |-> kind, id |-> id, msg |-> msg]
RetNone == Ret("None", None, "")

LiveStatus == {ACTIVE, CHECKED_IN}

LiveSessions(ss, contact_id) ==
    {i \in 1..Len(ss) : ss[i].contact_id = contact_id /\ ss[i].status \in LiveStatus}

\* get_active_session with a query that finds no row
get_active_session_never(ss, contact_id) == None

\* SessionService.get_active_session: scalar_one_or_none() raises when the
\* query yields several rows, and the handler then returns None
get_active_session(ss, contact_id) ==
    LET live == LiveSessions(ss, contact_id)
    IN IF Cardinality(live) = 1 THEN CHOOSE i \in live : TRUE ELSE None

\* MeetingCheck that takes an inactive meeting for an active one
MeetingCheck_inactive_ok(mt, meeting_id) ==
    IF meeting_id \in DOMAIN mt THEN "ok" ELSE "not found"

\* create_session, lines 36-61: the meeting must exist and be active
MeetingCheck(mt, meeting_id) ==
    IF meeting_id \in DOMAIN mt /\ mt[meeting_id].is_active THEN "ok"
    ELSE IF meeting_id \in DOMAIN mt THEN "is not active"
    ELSE "not found"

\* create_session, lines 72-76: end the existing session
EndExisting(ss, existing_session) ==
    [ss EXCEPT ![existing_session].status = ENDED,
               ![existing_session].is_complete = TRUE]

\* SessionService.create_session.  fault: which commit of the call fails
\* (0: none, 1: ending the existing session, 2: inserting the new one).
create_session(mt, ss, contact_id, meeting_id, fault) ==
    LET chk == MeetingCheck(mt, meeting_id)
        existing_session == get_active_session(ss, contact_id)
        ended == IF existing_session # None THEN EndExisting(ss, existing_session) ELSE ss
        session == Session(contact_id, meeting_id, mt[meeting_id].name)
    IN  IF chk # "ok" THEN [sessions |-> ss, ret |-> Ret("ValueError", None, chk)]
        ELSE IF existing_session # None /\ fault = 1
             THEN [sessions |-> ss, ret |-> Ret("RuntimeError", None, "")]
        ELSE IF fault = 2
             THEN [sessions |-> ended, ret |-> Ret("RuntimeError", None, "")]
        ELSE [sessions |-> Append(ended, session),
              ret |-> Ret("Session", Len(ss) + 1, "")]

\* SessionService.create_general_session.  fault: the commit fails.
create_general_session(ss, contact_id, fault) ==
    LET existing_session == get_active_session(ss, contact_id)
        session == Session(contact_id, "None", <<"General", "Session">>)
    IN  IF existing_session # None
        THEN [sessions |-> ss, ret |-> Ret("Session", existing_session, "")]
        ELSE IF fault THEN [sessions |-> ss, ret |-> Ret("RuntimeError", None, "")]
        ELSE [sessions |-> Append(ss, session), ret |-> Ret("Session", Len(ss) + 1, "")]

\* check_in, lines 159-171: load the session and test its status
SessionLoad(ss, session_id, required) ==
    IF session_id \notin 1..Len(ss) THEN "not found"
    ELSE IF ss[session_id].status # required THEN "wrong status"
    ELSE "ok"

\* check_in, line 193
is_test_meeting(meeting) ==
    NameContains(meeting.name, <<"AYA", "Demo">>) \/ meeting.radius_meters >= TestRadius

\* check_in, lines 173-224: meeting lookup, proximity check, event creation
CheckInEvent(mt, ev, session_id, meeting_id, location_data, fault) ==
    IF meeting_id \notin DOMAIN mt THEN [events |-> ev, event |-> None]
    ELSE
        LET proximity_result == verify_location(mt, location_data.latitude,
                                    location_data.longitude, meeting_id,
                                    location_data.accuracy)
        IN  IF ~proximity_result.is_within_range /\ ~is_test_meeting(mt[meeting_id])
            THEN [events |-> ev, event |-> None]
            ELSE create_session_event(mt, ev, session_id, CHECK_IN, location_data,
                                      meeting_id, fault)

\* check_out, lines 264-288: proximity check, event creation
CheckOutEvent(mt, ev, session_id, meeting_id, location_data, fault) ==
    LET proximity_result == verify_location(mt, location_data.latitude,
                                location_data.longitude, meeting_id,
                                location_data.accuracy)
    IN  IF ~proximity_result.is_within_range
        THEN [events |-> ev, event |-> None]
        ELSE create_session_event(mt, ev, session_id, CHECK_OUT, location_data,
                                  meeting_id, fault)

\* check_in, lines 226-230: status, check_in_time, commit
CheckInCommit(ss, ev, session_id, now) ==
    [sessions |-> [ss EXCEPT ![session_id].status = CHECKED_IN],
     events |-> set_check_in_time(ev, session_id, now)]

\* check_out, lines 290-294: status, check_out_time, commit
CheckOutCommit(ss, ev, session_id, now) ==
    [sessions |-> [ss EXCEPT ![session_id].status = COMPLETED],
     events |-> set_check_out_time(ev, session_id, now)]

\* SessionService.check_in.  fault: which commit of the call fails (0: none,
\* 1: the event's insert in create_session_event, 2: the status update).
check_in(mt, ss, ev, session_id, location_data, now, fault) ==
    LET ld == SessionLoad(ss, session_id, ACTIVE)
        ce == CheckInEvent(mt, ev, session_id, ss[session_id].meeting_id,
                           location_data, fault = 1)
        cm == CheckInCommit(ss, ce.events, session_id, now)
    IN  IF ld # "ok" THEN [sessions |-> ss, events |-> ev, ret |-> RetNone]
        ELSE IF ce.event = None THEN [sessions |-> ss, events |-> ce.events, ret |-> RetNone]
        ELSE IF fault = 2 THEN [sessions |-> ss, events |-> ce.events, ret |-> RetNone]
        ELSE [sessions |-> cm.sessions, events |-> cm.events,
              ret |-> Ret("SessionEvent", ce.event, "")]

\* SessionService.check_out.  fault as for check_in.
check_out(mt, ss, ev, session_id, location_data, now, fault) ==
    LET ld == SessionLoad(ss, session_id, CHECKED_IN)
        ce == CheckOutEvent(mt, ev, session_id, ss[session_id].meeting_id,
                            location_data, fault = 1)
        cm == CheckOutCommit(ss, ce.events, session_id, now)
    IN  IF ld # "ok" THEN [sessions |-> ss, events |-> ev, ret |-> RetNone]
        ELSE IF ce.event = None THEN [sessions |-> ss, events |-> ce.events, ret |-> RetNone]
        ELSE IF fault = 2 THEN [sessions |-> ss, events |-> ce.events, ret |-> RetNone]
        ELSE [sessions |-> cm.sessions, events |-> cm.events,
              ret |-> Ret("SessionEvent", ce.event, "")]

\* SessionService.end_session.  fault: the commit fails.
end_session(ss, ev, session_id, reason, now, fault) ==
    IF session_id \notin 1..Len(ss)
    THEN [sessions |-> ss, events |-> ev, ret |-> Ret("bool", 0, "False")]
    ELSE IF fault
    THEN [sessions |-> ss, events |-> ev, ret |-> Ret("bool", 0, "False")]
    ELSE [sessions |-> [ss EXCEPT ![session_id].status = ENDED,
                                  ![session_id].session_notes = Append(@, reason)],
          events |-> set_check_out_time(ev, session_id, now),
          ret |-> Ret("bool", 1, "True")]

\* ------------------------------------------------ calls executed one at a time
Workers == {1, 2}
SessionIds == 1..MaxSessions
Faults == 0..2
NoSample == LocationData(0, 0, <<>>)

RECURSIVE SumLen(_, _)
SumLen(ev, S) ==
    IF S = {} THEN 0
    ELSE LET x == CHOOSE y \in S : TRUE IN Len(ev[x]) + SumLen(ev, S \ {x})

TotalEvents(ev) == SumLen(ev, DOMAIN ev)

\* A request: its position (pc), the call and its arguments, the locals the
\* handler holds across its awaits (existing_session, event), whether another
\* request was in flight while it ran (overlapped), and what it returned.
Idle == [pc |-> "idle", op |-> "none", contact_id |-> "", meeting_id |-> "",
         session_id |-> None, location_data |-> NoSample, existing_session |-> None,
         event |-> None, overlapped |-> FALSE, ret |-> RetNone]

\* no call of LocationService made yet
NoCall == [method |-> "none", latitude |-> 0, longitude |-> 0, accuracy |-> <<>>,
           meeting_id |-> "", result |-> FALSE]

\* no process_user_queue call in flight
NoProc == [pc |-> "idle", user_id |-> "", operations |-> <<>>, done |-> <<>>]

Init ==
    /\ meetings = InitMeetings
    /\ sessions = <<>>
    /\ events = [sid \in SessionIds |-> <<>>]
    /\ workers = [w \in Workers |-> Idle]
    /\ queue = [u \in Contacts |-> {}]
    /\ failed = [u \in Contacts |-> <<>>]
    /\ ttl = [k \in {"offline_queue", "offline_failed"} \X Contacts |-> 0]
    /\ clock = datetime(Epoch, 0)
    /\ issued = {}
    /\ procs = [w \in Workers |-> NoProc]
    /\ located = NoCall

CreateSession(contact_id, meeting_id, fault) ==
    /\ Len(sessions) < MaxSessions
    /\ sessions' = create_session(meetings, sessions, contact_id, meeting_id, fault).sessions
    /\ UNCHANGED <<meetings, events, workers>>
    /\ UNCHANGED <<ovars, lvars>>

CreateGeneralSession(contact_id, fault) ==
    /\ Len(sessions) < MaxSessions
    /\ sessions' = create_general_session(sessions, contact_id, fault = 1).sessions
    /\ UNCHANGED <<meetings, events, workers>>
    /\ UNCHANGED <<ovars, lvars>>

CheckIn(session_id, location_data, now, fault) ==
    /\ LET r == check_in(meetings, sessions, events, session_id, location_data, now, fault)
       IN /\ TotalEvents(r.events) <= MaxEvents
          /\ sessions' = r.sessions
          /\ events' = r.events
    /\ UNCHANGED <<meetings, workers>>
    /\ UNCHANGED <<ovars, lvars>>

CheckOut(session_id, location_data, now, fault) ==
    /\ LET r == check_out(meetings, sessions, events, session_id, location_data, now, fault)
       IN /\ TotalEvents(r.events) <= MaxEvents
          /\ sessions' = r.sessions
          /\ events' = r.events
    /\ UNCHANGED <<meetings, workers>>
    /\ UNCHANGED <<ovars, lvars>>

EndSession(session_id, reason, now, fault) ==
    /\ LET r == end_session(sessions, events, session_id, reason, now, fault = 1)
       IN /\ TotalEvents(r.events) <= MaxEvents
          /\ \A i \in 1..Len(r.sessions) : Len(r.sessions[i].session_notes) <= MaxNotes
          /\ sessions' = r.sessions
          /\ events' = r.events
    /\ UNCHANGED <<meetings, workers>>
    /\ UNCHANGED <<ovars, lvars>>

Next ==
    \/ \E c \in Contacts, m \in AnyMeetingId, f \in Faults : CreateSession(c, m, f)
    \/ \E c \in Contacts, f \in 0..1 : CreateGeneralSession(c, f)
    \/ \E sid \in SessionIds, loc \in Samples, t \in Times, f \in Faults :
            CheckIn(sid, loc, t, f)
    \/ \E sid \in SessionIds, loc \in Samples, t \in Times, f \in Faults :
            CheckOut(sid, loc, t, f)
    \/ \E sid \in SessionIds, r \in Reasons, t \in Times, f \in 0..1 :
            EndSession(sid, r, t, f)

Spec == Init /\ [][Next]_vars

\* ------------------------------------- requests whose steps are interleaved
\* Each handler is a coroutine: it runs without interruption from one await
\* on the database to the next, and another request may run at each await.
InFlight(w) == workers[w].pc \notin {"idle", "done"}

\* the handler returns: its locals are gone, the call and its result remain
Returned(w, ret) ==
    [Idle EXCEPT !.pc = "done", !.op = workers[w].op,
                 !.contact_id = workers[w].contact_id,
                 !.session_id = workers[w].session_id,
                 !.overlapped = workers[w].overlapped, !.ret = ret]

\* the requests w starts next to: both are marked as overlapping
Begin(w, rec) ==
    [v \in Workers |->
        IF v = w THEN [rec EXCEPT !.overlapped = \E u \in Workers \ {w} : InFlight(u)]
        ELSE IF InFlight(v) THEN [workers[v] EXCEPT !.overlapped = TRUE]
        ELSE workers[v]]

\* create_session, lines 36-64: the meeting check and get_active_session
CreateSessionLookup(w, contact_id, meeting_id) ==
    /\ workers[w].pc = "idle"
    /\ Len(sessions) < MaxSessions
    /\ LET chk == MeetingCheck(meetings, meeting_id)
           existing_session == get_active_session(sessions, contact_id)
           rec == [Idle EXCEPT !.op = "create_session", !.contact_id = contact_id,
                               !.meeting_id = meeting_id]
       IN workers' = Begin(w,
            IF chk # "ok"
            THEN [rec EXCEPT !.pc = "done", !.meeting_id = "",
                             !.ret = Ret("ValueError", None, chk)]
            ELSE [rec EXCEPT !.existing_session = existing_session,
                             !.pc = IF existing_session # None THEN "cs_end"
                                    ELSE "cs_insert"])
    /\ UNCHANGED <<meetings, sessions, events>>
    /\ UNCHANGED <<ovars, lvars>>

\* create_session, lines 72-76: end the existing session and commit
CreateSessionEnd(w, fault) ==
    /\ workers[w].pc = "cs_end"
    /\ IF fault = 1
       THEN /\ workers' = [workers EXCEPT ![w] = Returned(w, Ret("RuntimeError", None, ""))]
            /\ UNCHANGED sessions
       ELSE /\ sessions' = EndExisting(sessions, workers[w].existing_session)
            /\ workers' = [workers EXCEPT ![w].pc = "cs_insert"]
    /\ UNCHANGED <<meetings, events>>
    /\ UNCHANGED <<ovars, lvars>>

\* create_session, lines 81-97: insert the new session and commit
CreateSessionInsert(w, fault) ==
    /\ workers[w].pc = "cs_insert"
    /\ IF fault = 1
       THEN /\ workers' = [workers EXCEPT ![w] = Returned(w, Ret("RuntimeError", None, ""))]
            /\ UNCHANGED sessions
       ELSE /\ sessions' = Append(sessions, Session(workers[w].contact_id,
                                    workers[w].meeting_id,
                                    meetings[workers[w].meeting_id].name))
            /\ workers' = [workers EXCEPT
                    ![w] = Returned(w, Ret("Session", Len(sessions) + 1, ""))]
    /\ UNCHANGED <<meetings, events>>
    /\ UNCHANGED <<ovars, lvars>>

\* check_in, lines 159-171: load the session and test its status
CheckInLoad(w, session_id, location_data) ==
    /\ workers[w].pc = "idle"
    /\ LET rec == [Idle EXCEPT !.op = "check_in", !.session_id = session_id,
                               !.location_data = location_data]
       IN workers' = Begin(w,
            IF SessionLoad(sessions, session_id, ACTIVE) # "ok"
            THEN [rec EXCEPT !.pc = "done", !.location_data = NoSample]
            ELSE [rec EXCEPT !.pc = "ci_event"])
    /\ UNCHANGED <<meetings, sessions, events>>
    /\ UNCHANGED <<ovars, lvars>>

\* check_in, lines 173-224: proximity check and create_session_event
CheckInCreateEvent(w, fault) ==
    /\ workers[w].pc = "ci_event"
    /\ LET session_id == workers[w].session_id
           ce == CheckInEvent(meetings, events, session_id,
                              sessions[session_id].meeting_id,
                              workers[w].location_data, fault = 1)
       IN /\ TotalEvents(ce.events) <= MaxEvents
          /\ events' = ce.events
          /\ workers' = [workers EXCEPT ![w] =
                IF ce.event = None THEN Returned(w, RetNone)
                ELSE [workers[w] EXCEPT !.pc = "ci_commit", !.event = ce.event]]
    /\ UNCHANGED <<meetings, sessions>>
    /\ UNCHANGED <<ovars, lvars>>

\* check_in, lines 226-234: status, check_in_time, commit
CheckInStatusCommit(w, now, fault) ==
    /\ workers[w].pc = "ci_commit"
    /\ IF fault = 1
       THEN /\ workers' = [workers EXCEPT ![w] = Returned(w, RetNone)]
            /\ UNCHANGED <<sessions, events>>
       ELSE LET cm == CheckInCommit(sessions, events, workers[w].session_id, now)
            IN /\ TotalEvents(cm.events) <= MaxEvents + 1
               /\ sessions' = cm.sessions
               /\ events' = cm.events
               /\ workers' = [workers EXCEPT
                    ![w] = Returned(w, Ret("SessionEvent", workers[w].event, ""))]
    /\ UNCHANGED meetings
    /\ UNCHANGED <<ovars, lvars>>

\* the caller takes the result; the worker serves the next request
Return(w) ==
    /\ workers[w].pc = "done"
    /\ workers' = [workers EXCEPT ![w] = Idle]
    /\ UNCHANGED <<meetings, sessions, events>>
    /\ UNCHANGED <<ovars, lvars>>

NextInterleaved ==
    \/ \E w \in Workers, c \in Contacts, m \in AnyMeetingId : CreateSessionLookup(w, c, m)
    \/ \E w \in Workers, f \in 0..1 : CreateSessionEnd(w, f)
    \/ \E w \in Workers, f \in 0..1 : CreateSessionInsert(w, f)
    \/ \E w \in Workers, sid \in SessionIds, loc \in Samples : CheckInLoad(w, sid, loc)
    \/ \E w \in Workers, f \in 0..1 : CheckInCreateEvent(w, f)
    \/ \E w \in Workers, t \in Times, f \in 0..1 : CheckInStatusCommit(w, t, f)
    \/ \E w \in Workers : Return(w)

SpecInterleaved == Init /\ [][NextInterleaved]_vars

\* the create_session requests alone
NextCreate ==
    \/ \E w \in Workers, c \in Contacts, m \in AnyMeetingId : CreateSessionLookup(w, c, m)
    \/ \E w \in Workers, f \in 0..1 : CreateSessionEnd(w, f)
    \/ \E w \in Workers, f \in 0..1 : CreateSessionInsert(w, f)
    \/ \E w \in Workers : Return(w)

SpecCreate == Init /\ [][NextCreate]_vars

\* ------------------------------------------------------------ OfflineService
\* the payload of an operation (a JSON object); a key the operation's type
\* does not use holds None, "" or NoSample's values
Data(session_id, location_data, contact_id, meeting_id) ==
    [session_id |-> session_id, latitude |-> location_data.latitude,
     longitude |-> location_data.longitude, accuracy |-> location_data.accuracy,
     contact_id |-> contact_id, meeting_id |-> meeting_id]

\* the requests a client queues: check in to and check out of session 1 at
\* the centre of its meeting, end session 1, create a session for meeting m1,
\* and an operation type process_operation does not know
Requests(user_id) ==
    {[operation_type |-> "check_in", data |-> Data(1, LocationData(0, 0, <<10>>), "", "")],
     [operation_type |-> "check_out", data |-> Data(1, LocationData(0, 0, <<10>>), "", "")],
     [operation_type |-> "end_session", data |-> Data(1, NoSample, "", "")],
     [operation_type |-> "create_session", data |-> Data(None, NoSample, user_id, "m1")],
     [operation_type |-> "sync", data |-> Data(None, NoSample, "", "")]}

\* OfflineOperation.__init__; last_attempt is <<>> for None, else <<datetime>>
OfflineOperation(id, operation_type, data, user_id, priority, max_retries, now) ==
    [id |-> id, operation_type |-> operation_type, data |-> data, user_id |-> user_id,
     priority |-> priority, max_retries |-> max_retries, retry_count |-> 0,
     created_at |-> now, last_attempt |-> <<>>, status |-> "pending"]

\* datetime.isoformat and datetime.fromisoformat: the text keeps the
\* microseconds, and texts of one century compare as their datetimes do
isoformat(dt) == <<dt.sec, dt.usec>>
fromisoformat(text) == datetime(text[1], text[2])

\* OfflineOperation.to_dict: the JSON object that is stored
to_dict(operation) ==
    [id |-> operation.id, operation_type |-> operation.operation_type,
     data |-> operation.data, user_id |-> operation.user_id,
     priority |-> operation.priority, max_retries |-> operation.max_retries,
     retry_count |-> operation.retry_count,
     created_at |-> isoformat(operation.created_at),
     last_attempt |-> IF operation.last_attempt # <<>>
                      THEN <<isoformat(operation.last_attempt[1])>> ELSE <<>>,
     status |-> operation.status]

\* OfflineOperation.from_dict
from_dict(d) ==
    [id |-> d.id, operation_type |-> d.operation_type, data |-> d.data,
     user_id |-> d.user_id, priority |-> d.priority, max_retries |-> d.max_retries,
     retry_count |-> d.retry_count, created_at |-> fromisoformat(d.created_at),
     last_attempt |-> IF d.last_attempt # <<>> THEN <<fromisoformat(d.last_attempt[1])>>
                      ELSE <<>>,
     status |-> d.status]

\* the ordering score of lines 122, 381 and 443
Score(operation) == operation.priority * ScoreFactor - operation.created_at.sec

\* Order of two members of a sorted set, which are the texts json.dumps
\* makes of to_dict's objects: the id comes first, and two texts with one id
\* agree up to retry_count, then come created_at, last_attempt ("null" is
\* above every quoted text) and status ("failed" is below "pending").
NullRank == 2147483647

TextKey(d) ==
    <<d.id, d.retry_count,
      IF d.last_attempt = <<>> THEN NullRank ELSE d.last_attempt[1][1],
      IF d.last_attempt = <<>> THEN 0 ELSE d.last_attempt[1][2],
      IF d.status = "failed" THEN 0 ELSE 1>>

RECURSIVE LexLess(_, _, _)
LexLess(a, b, i) ==
    IF i > Len(a) THEN FALSE
    ELSE IF a[i] # b[i] THEN a[i] < b[i]
    ELSE LexLess(a, b, i + 1)

\* Redis sorts a sorted set by score and entries of one score by member
EntryLess(e, f) ==
    \/ e.score < f.score
    \/ e.score = f.score /\ LexLess(TextKey(e.member), TextKey(f.member), 1)

\* ZADD: a member that is already in the set only changes its score
zadd(zs, member, score) ==
    {e \in zs : e.member # member} \cup {[member |-> member, score |-> score]}

\* ZREVRANGE key 0 stop: the entries from the highest down
RECURSIVE Descending(_)
Descending(zs) ==
    IF zs = {} THEN <<>>
    ELSE CHOOSE range \in {<<top>> \o Descending(zs \ {top}) :
                top \in {e \in zs : \A f \in zs \ {e} : EntryLess(f, e)}} : TRUE

zrevrange(zs, stop) ==
    LET all == Descending(zs)
    IN IF stop = -1 THEN all ELSE SubSeq(all, 1, Min(stop + 1, Len(all)))

\* LREM key 1 value: remove the first element equal to value
lrem(list, value) ==
    LET at == {i \in 1..Len(list) : list[i] = value}
    IN IF at = {} THEN list
       ELSE LET i == FirstOf(at) IN SubSeq(list, 1, i - 1) \o SubSeq(list, i + 1, Len(list))

QueueKey(user_id) == <<"offline_queue", user_id>>
FailedKey(user_id) == <<"offline_failed", user_id>>

\* the Redis state the service works on
Store(q, fl, t) == [queue |-> q, failed |-> fl, ttl |-> t]

\* OfflineService.queue_operation
queue_operation(st, operation_type, data, user_id, priority, id, now) ==
    LET operation == OfflineOperation(id, operation_type, data, user_id, priority,
                                      default_max_retries, now)
    IN [st EXCEPT !.queue[user_id] = zadd(@, to_dict(operation), Score(operation)),
                  !.ttl[QueueKey(user_id)] = now.sec + QueueTTL]

\* OfflineService.get_pending_operations
RECURSIVE Operations(_)
Operations(entries) ==
    IF entries = <<>> THEN <<>>
    ELSE <<from_dict(Head(entries).member)>> \o Operations(Tail(entries))

get_pending_operations(st, user_id, limit) ==
    Operations(zrevrange(st.queue[user_id], limit - 1))

\* OfflineService._remove_operation: ZREMRANGEBYSCORE key -inf +inf empties
\* the sorted set, and Redis deletes an empty key together with its expiry
_remove_operation(st, operation) ==
    [st EXCEPT !.queue[operation.user_id] = {},
               !.ttl[QueueKey(operation.user_id)] = 0]

\* OfflineService._move_to_failed: LPUSH and EXPIRE
_move_to_failed(st, operation, now) ==
    [st EXCEPT !.failed[operation.user_id] = <<to_dict(operation)>> \o @,
               !.ttl[FailedKey(operation.user_id)] = now.sec + FailedTTL]

\* an _update_operation whose write is lost
_update_operation_lost(st, operation) == st

\* OfflineService._update_operation: ZADD of the operation's new text
_update_operation(st, operation) ==
    [st EXCEPT !.queue[operation.user_id] = zadd(@, to_dict(operation), Score(operation))]

\* what an effect leaves: the database and whether it succeeded
Effect(ss, ev, success) == [sessions |-> ss, events |-> ev, success |-> success]

\* OfflineService._process_check_in
_process_check_in(mt, ss, ev, operation, t) ==
    LET data == operation.data
        r == check_in(mt, ss, ev, data.session_id,
                      LocationData(data.latitude, data.longitude, data.accuracy), t, 0)
    IN Effect(r.sessions, r.events, r.ret # RetNone)

\* OfflineService._process_check_out
_process_check_out(mt, ss, ev, operation, t) ==
    LET data == operation.data
        r == check_out(mt, ss, ev, data.session_id,
                       LocationData(data.latitude, data.longitude, data.accuracy), t, 0)
    IN Effect(r.sessions, r.events, r.ret # RetNone)

\* OfflineService._process_create_session: a ValueError or RuntimeError of
\* create_session is caught and gives False
_process_create_session(mt, ss, ev, operation) ==
    LET data == operation.data
        r == create_session(mt, ss, data.contact_id, data.meeting_id, 0)
    IN Effect(r.sessions, ev, r.ret.kind = "Session")

\* OfflineService._process_end_session
_process_end_session(ss, ev, operation, t) ==
    LET r == end_session(ss, ev, operation.data.session_id, "Offline end", t, FALSE)
    IN Effect(r.sessions, r.events, r.ret.id = 1)

KnownTypes == {"check_in", "check_out", "create_session", "end_session"}

\* process_operation, lines 178-185: the dispatch on operation_type
Dispatch(mt, ss, ev, operation, t) ==
    CASE operation.operation_type = "check_in" -> _process_check_in(mt, ss, ev, operation, t)
      [] operation.operation_type = "check_out" -> _process_check_out(mt, ss, ev, operation, t)
      [] operation.operation_type = "create_session" ->
                _process_create_session(mt, ss, ev, operation)
      [] operation.operation_type = "end_session" -> _process_end_session(ss, ev, operation, t)
      [] OTHER -> Effect(ss, ev, FALSE)

\* the bookkeeping that counts a failed attempt twice
Bookkeeping_twice(st, operation, now) ==
    LET counted == [operation EXCEPT !.retry_count = @ + 2]
    IN IF counted.retry_count >= counted.max_retries
       THEN _move_to_failed(st, [counted EXCEPT !.status = "failed"], now)
       ELSE _update_operation(st, [counted EXCEPT !.status = "pending"])

\* process_operation, lines 195-203: the bookkeeping of a failed attempt
Bookkeeping(st, operation, now) ==
    LET counted == [operation EXCEPT !.retry_count = @ + 1]
    IN IF counted.retry_count >= counted.max_retries
       THEN _move_to_failed(st, [counted EXCEPT !.status = "failed"], now)
       ELSE _update_operation(st, [counted EXCEPT !.status = "pending"])

\* process_operation, lines 207-212: the handler of an exception
Handler(st, operation) ==
    LET counted == [operation EXCEPT !.retry_count = @ + 1]
    IN _update_operation(st, [counted EXCEPT !.status =
            IF counted.retry_count >= counted.max_retries THEN "failed" ELSE "pending"])

\* Every statement of process_operation's try block that can raise is inside
\* a try block of its own (lines 271, 302, 323, 343, 356, 371, 386), so no
\* exception reaches the handler of line 207.
Escaping == {FALSE}

\* OfflineService.process_operation.  now: the reading of the clock at line
\* 174; t: the time the session engine stamps; raised: an exception escapes
\* the try block.
process_operation(mt, ss, ev, st, operation, now, t, raised) ==
    LET attempt == [operation EXCEPT !.status = "processing", !.last_attempt = <<now>>]
    IN  IF raised
        THEN [sessions |-> ss, events |-> ev, store |-> Handler(st, attempt), ret |-> FALSE]
        ELSE IF attempt.operation_type \notin KnownTypes
        THEN [sessions |-> ss, events |-> ev, store |-> st, ret |-> FALSE]
        ELSE CHOOSE result \in
            {IF e.success
             THEN [sessions |-> e.sessions, events |-> e.events,
                   store |-> _remove_operation(st, [attempt EXCEPT !.status = "completed"]),
                   ret |-> TRUE]
             ELSE [sessions |-> e.sessions, events |-> e.events,
                   store |-> Bookkeeping(st, attempt, now), ret |-> FALSE] :
                e \in {Dispatch(mt, ss, ev, attempt, t)}} : TRUE

\* datetime.utcnow() never returns one value twice
Tock(now) == [now EXCEPT !.usec = @ + 1]

\* process_user_queue, lines 229-232: the counts after one process_operation;
\* completed holds the ids of the operations counted in processed
Counted(run, operation, r) ==
    [sessions |-> r.sessions, events |-> r.events, store |-> r.store,
     clock |-> Tock(run.clock),
     processed |-> run.processed + (IF r.ret THEN 1 ELSE 0),
     failed |-> run.failed + (IF r.ret THEN 0 ELSE 1),
     total |-> run.total,
     completed |-> run.completed \cup (IF r.ret THEN {operation.id} ELSE {})]

\* process_user_queue, lines 224-232: the loop over the operations read
RECURSIVE ProcessAll(_, _, _, _, _)
ProcessAll(mt, run, operations, t, raised) ==
    IF operations = <<>> THEN run
    ELSE CHOOSE result \in
        {ProcessAll(mt, next, Tail(operations), t, raised) :
            next \in {Counted(run, Head(operations), r) :
                r \in {process_operation(mt, run.sessions, run.events, run.store,
                                         Head(operations), run.clock, t, raised)}}} : TRUE

\* OfflineService.process_user_queue
process_user_queue(mt, ss, ev, st, user_id, max_ops, now, t, raised) ==
    CHOOSE result \in
        {ProcessAll(mt, [sessions |-> ss, events |-> ev, store |-> st, clock |-> now,
                         processed |-> 0, failed |-> 0, total |-> Len(operations),
                         completed |-> {}],
                    operations, t, raised) :
            operations \in {get_pending_operations(st, user_id, max_ops)}} : TRUE

\* OfflineService.retry_failed_operation
retry_failed_operation(st, operation_id, user_id) ==
    LET found == {i \in 1..Len(st.failed[user_id]) : st.failed[user_id][i].id = operation_id}
        operation_json == st.failed[user_id][FirstOf(found)]
        operation_dict == [operation_json EXCEPT !.retry_count = 0, !.status = "pending"]
        operation == from_dict(operation_dict)
        rest == lrem(st.failed[user_id], operation_json)
    IN  IF found = {} THEN [store |-> st, ret |-> FALSE]
        ELSE [store |-> [st EXCEPT
                    !.failed[user_id] = rest,
                    !.ttl[FailedKey(user_id)] = IF rest = <<>> THEN 0 ELSE @,
                    !.queue[user_id] = zadd(@, to_dict(operation), Score(operation))],
              ret |-> TRUE]

\* OfflineService.clear_user_queue
clear_user_queue(st, user_id) ==
    [st EXCEPT !.queue[user_id] = {}, !.failed[user_id] = <<>>,
               !.ttl[QueueKey(user_id)] = 0, !.ttl[FailedKey(user_id)] = 0]

\* ------------------------------------- queue calls executed one at a time
TheStore == Store(queue, failed, ttl)

\* the keys whose expiry time has come are deleted
Expire(st, now) ==
    [st EXCEPT
        !.queue = [u \in Contacts |->
            IF st.ttl[QueueKey(u)] # 0 /\ st.ttl[QueueKey(u)] <= now.sec THEN {} ELSE @[u]],
        !.failed = [u \in Contacts |->
            IF st.ttl[FailedKey(u)] # 0 /\ st.ttl[FailedKey(u)] <= now.sec THEN <<>> ELSE @[u]],
        !.ttl = [k \in DOMAIN st.ttl |-> IF @[k] <= now.sec THEN 0 ELSE @[k]]]

\* Time passes between two requests.  The clock is only observed through
\* the operations that are stored, so it advances while some are.
Tick ==
    /\ clock.sec < Epoch + MaxTicks * Advance
    /\ \E u \in Contacts : queue[u] # {} \/ failed[u] # <<>>
    /\ clock' = datetime(clock.sec + Advance, 0)
    /\ LET st == Expire(TheStore, clock')
       IN /\ queue' = st.queue
          /\ failed' = st.failed
          /\ ttl' = st.ttl
    /\ UNCHANGED <<svars, lvars, issued, procs>>

QueueOperation(user_id, request, priority, id) ==
    /\ id \in OpIds \ issued
    /\ clock.usec < MaxReads
    /\ LET st == queue_operation(TheStore, request.operation_type, request.data,
                                 user_id, priority, id, clock)
       IN /\ Cardinality(st.queue[user_id]) <= MaxQueue
          /\ queue' = st.queue
          /\ ttl' = st.ttl
    /\ clock' = Tock(clock)
    /\ issued' = issued \cup {id}
    /\ UNCHANGED <<svars, lvars, failed, procs>>

\* the bounds a call's outcome has to respect
WithinBounds(ss, ev, st, now) ==
    /\ Len(ss) <= MaxSessions
    /\ TotalEvents(ev) <= MaxEvents
    /\ \A i \in 1..Len(ss) : Len(ss[i].session_notes) <= MaxNotes
    /\ \A u \in Contacts : Cardinality(st.queue[u]) <= MaxQueue
    /\ now.usec <= MaxReads

ProcessUserQueue(user_id, t, raised) ==
    /\ \E r \in {process_user_queue(meetings, sessions, events, TheStore, user_id,
                                    max_operations, clock, t, raised)} :
          /\ WithinBounds(r.sessions, r.events, r.store, r.clock)
          /\ sessions' = r.sessions
          /\ events' = r.events
          /\ queue' = r.store.queue
          /\ failed' = r.store.failed
          /\ ttl' = r.store.ttl
          /\ clock' = r.clock
    /\ UNCHANGED <<meetings, workers, lvars, issued, procs>>

RetryFailedOperation(operation_id, user_id) ==
    /\ LET r == retry_failed_operation(TheStore, operation_id, user_id)
       IN /\ Cardinality(r.store.queue[user_id]) <= MaxQueue
          /\ queue' = r.store.queue
          /\ failed' = r.store.failed
          /\ ttl' = r.store.ttl
    /\ UNCHANGED <<svars, lvars, clock, issued, procs>>

ClearUserQueue(user_id) ==
    /\ LET st == clear_user_queue(TheStore, user_id)
       IN /\ queue' = st.queue
          /\ failed' = st.failed
          /\ ttl' = st.ttl
    /\ UNCHANGED <<svars, lvars, clock, issued, procs>>

\* the participants that use the offline queue
QueueUsers == {"c1"}

NextOffline ==
    \/ \E u \in QueueUsers, p \in Priorities, id \in OpIds :
            \E request \in Requests(u) : QueueOperation(u, request, p, id)
    \/ \E u \in QueueUsers, t \in Times, raised \in Escaping : ProcessUserQueue(u, t, raised)
    \/ \E id \in OpIds, u \in QueueUsers : RetryFailedOperation(id, u)
    \/ \E u \in QueueUsers : ClearUserQueue(u)
    \/ Tick

SpecOffline == Init /\ [][NextOffline]_vars

\* ------------------------- process_user_queue calls whose steps interleave
\* process_user_queue awaits Redis and the database: another call may run
\* between its reading of the pending operations and each process_operation.
\* procs[w].done lists the operations whose effect the call has executed,
\* each with what its process_operation returned.

\* process_user_queue, line 222: read the pending operations
QueueFetch(w, user_id) ==
    /\ procs[w].pc = "idle"
    /\ LET operations == get_pending_operations(TheStore, user_id, max_operations)
       IN procs' = [procs EXCEPT ![w] =
            [pc |-> IF operations = <<>> THEN "done" ELSE "loop", user_id |-> user_id,
             operations |-> operations, done |-> <<>>]]
    /\ UNCHANGED <<svars, lvars, queue, failed, ttl, clock, issued>>

\* process_user_queue, lines 227-232: process_operation on the next operation
QueueProcess(w, t, raised) ==
    /\ procs[w].pc = "loop"
    /\ LET operation == Head(procs[w].operations)
       IN \E r \in {process_operation(meetings, sessions, events, TheStore, operation,
                                      clock, t, raised)} :
          /\ WithinBounds(r.sessions, r.events, r.store, Tock(clock))
          /\ sessions' = r.sessions
          /\ events' = r.events
          /\ queue' = r.store.queue
          /\ failed' = r.store.failed
          /\ ttl' = r.store.ttl
          /\ procs' = [procs EXCEPT
                ![w].operations = Tail(@),
                ![w].done = IF operation.operation_type \in KnownTypes /\ ~raised
                            THEN Append(@, [operation |-> operation, success |-> r.ret])
                            ELSE @,
                ![w].pc = IF Tail(procs[w].operations) = <<>> THEN "done" ELSE "loop"]
    /\ clock' = Tock(clock)
    /\ UNCHANGED <<meetings, workers, lvars, issued>>

\* process_user_queue, lines 234-238: the counts are returned
QueueReturn(w) ==
    /\ procs[w].pc = "done"
    /\ procs' = [procs EXCEPT ![w] = NoProc]
    /\ UNCHANGED <<svars, lvars, queue, failed, ttl, clock, issued>>

NextOfflineInterleaved ==
    \/ \E u \in QueueUsers, p \in Priorities, id \in OpIds :
            \E request \in Requests(u) : QueueOperation(u, request, p, id)
    \/ \E w \in Workers, u \in QueueUsers : QueueFetch(w, u)
    \/ \E w \in Workers, t \in Times, raised \in Escaping : QueueProcess(w, t, raised)
    \/ \E w \in Workers : QueueReturn(w)

SpecOfflineInterleaved == Init /\ [][NextOfflineInterleaved]_vars

\* ------------------------------------- check-in requests and their replay
\* schemas/session.py, SessionEventCreate: latitude within +-90 degrees,
\* longitude within +-180 degrees, accuracy absent or within [0, 1000]
max_accuracy == 1000

SessionEventCreate(location_data) ==
    /\ -LatMax <= location_data.latitude /\ location_data.latitude <= LatMax
    /\ -LngMax <= location_data.longitude /\ location_data.longitude <= LngMax
    /\ \/ location_data.accuracy = <<>>
       \/ 0 <= location_data.accuracy[1] /\ location_data.accuracy[1] <= max_accuracy

\* LocationService.is_location_valid
max_allowed_accuracy == 1000

is_location_valid(latitude, longitude, accuracy) ==
    IF ~(-LatMax <= latitude /\ latitude <= LatMax)
       \/ ~(-LngMax <= longitude /\ longitude <= LngMax)
    THEN FALSE
    ELSE IF accuracy # <<>> /\ accuracy[1] > max_allowed_accuracy THEN FALSE
    ELSE TRUE

\* the samples clients send: at the centre with a good fix, at the centre
\* with an accuracy of 2000 m, at the centre with a longitude of 360
\* degrees, and at a latitude of 91 degrees
FieldSamples ==
    { LocationData(0, 0, <<10>>),
      LocationData(0, 0, <<2000>>),
      LocationData(0, 2 * LngMax, <<10>>),
      LocationData(LatMax + UnitsPerDegree, 0, <<10>>) }

\* endpoints/sessions.py, check_in: the request body is validated (422),
\* then is_location_valid (400 with the sample in the detail), then
\* SessionService.check_in, whose None becomes one 400 whatever its cause
check_in_endpoint(mt, ss, ev, session_id, location_data, t) ==
    IF ~SessionEventCreate(location_data)
    THEN [sessions |-> ss, events |-> ev, ret |-> Ret("HTTP", 422, "validation error")]
    ELSE IF ~is_location_valid(location_data.latitude, location_data.longitude,
                               location_data.accuracy)
    THEN [sessions |-> ss, events |-> ev, ret |-> Ret("HTTP", 400, "Invalid location data")]
    ELSE LET r == check_in(mt, ss, ev, session_id, location_data, t, 0)
         IN IF r.ret = RetNone
            THEN [r EXCEPT !.ret = Ret("HTTP", 400,
                                       "Check-in failed - location verification failed")]
            ELSE r

CheckInEndpoint(session_id, location_data, t) ==
    /\ \E r \in {check_in_endpoint(meetings, sessions, events, session_id,
                                    location_data, t)} :
          /\ TotalEvents(r.events) <= MaxEvents
          /\ sessions' = r.sessions
          /\ events' = r.events
    /\ UNCHANGED <<meetings, workers, ovars, lvars>>

\* the operations an offline client queues: check-ins to session 1 with
\* each of the samples, the end of session 1, and a session for the
\* inactive meeting
FieldRequests(user_id) ==
    {[operation_type |-> "check_in", data |-> Data(1, sample, "", "")] :
        sample \in FieldSamples}
    \cup {[operation_type |-> "end_session", data |-> Data(1, NoSample, "", "")],
          [operation_type |-> "create_session", data |-> Data(None, NoSample, user_id, "m2")]}

\* the worker that processes the queue, and the participants who open
\* their sessions online: the queue's user c1 names their sessions
QueueWorker == 1
SessionOwners == Contacts \ QueueUsers

NextReplay ==
    \/ \E c \in SessionOwners : CreateSession(c, "m1", 0)
    \/ \E sid \in SessionIds, sample \in FieldSamples, t \in Times :
            CheckInEndpoint(sid, sample, t)
    \/ \E u \in QueueUsers, id \in OpIds : \E request \in FieldRequests(u) :
            QueueOperation(u, request, default_priority, id)
    \/ \E u \in QueueUsers : QueueFetch(QueueWorker, u)
    \/ \E t \in Times, raised \in Escaping : QueueProcess(QueueWorker, t, raised)
    \/ QueueReturn(QueueWorker)

SpecReplay == Init /\ [][NextReplay]_vars

\* ------------------------------------------- sessions on varied geofences
\* the names and radii a meeting row is created with: a name with and one
\* without the "AYA Demo" marker, the default radius and a radius at the
\* lenient threshold
MeetingNames == {<<"Real", "Meeting">>, <<"AYA", "Demo", "Meet">>}
Radii == {default_radius_meters, TestRadius}

GeoTables ==
    {[InitMeetings EXCEPT !["m1"].name = name, !["m1"].radius_meters = radius] :
        name \in MeetingNames, radius \in Radii}

\* samples at the centre, 150 m away and 6000 m away
GeoSamples == Samples \cup {LocationData(6000, 0, <<10>>)}

\* the times of two requests
Stamps == {1, 2}

InitGeo ==
    /\ meetings \in GeoTables
    /\ sessions = <<>>
    /\ events = [sid \in SessionIds |-> <<>>]
    /\ workers = [w \in Workers |-> Idle]
    /\ queue = [u \in Contacts |-> {}]
    /\ failed = [u \in Contacts |-> <<>>]
    /\ ttl = [k \in {"offline_queue", "offline_failed"} \X Contacts |-> 0]
    /\ clock = datetime(Epoch, 0)
    /\ issued = {}
    /\ procs = [w \in Workers |-> NoProc]
    /\ located = NoCall

\* MeetingService.deactivate_meeting
deactivate_meeting(mt, meeting_id) ==
    IF meeting_id \notin DOMAIN mt THEN mt
    ELSE [mt EXCEPT ![meeting_id].is_active = FALSE]

DeactivateMeeting(meeting_id) ==
    /\ meetings' = deactivate_meeting(meetings, meeting_id)
    /\ UNCHANGED <<sessions, events, workers>>
    /\ UNCHANGED <<ovars, lvars>>

NextGeo ==
    \/ \E c \in SessionOwners : CreateSession(c, "m1", 0)
    \/ \E sid \in SessionIds, loc \in GeoSamples, t \in Stamps : CheckIn(sid, loc, t, 0)
    \/ \E sid \in SessionIds, loc \in GeoSamples, t \in Stamps : CheckOut(sid, loc, t, 0)
    \/ \E sid \in SessionIds, r \in Reasons, t \in Stamps : EndSession(sid, r, t, 0)
    \/ DeactivateMeeting("m1")

SpecGeo == InitGeo /\ [][NextGeo]_vars

\* ------------------------------------------- LocationService on its own
\* the radii a meetings row can hold (the column is a Float without a
\* check): none, one below and one above max_radius_meters
LocRadii == {0, default_radius_meters, 2 * max_radius_meters}

LocTables ==
    {[m \in MeetingIds |-> Meeting(<<"Real", "Meeting">>, 0, 0, radius, m = "m1")] :
        radius \in LocRadii}

\* the arguments of a call: latitudes at the centre, inside, on and outside
\* the default radius and beyond the pole, longitudes at the centre and a
\* full turn away, accuracies absent, perfect, fair, negative and too poor
LocLatitudes == {0, 50, 100, 150, LatMax + UnitsPerDegree}
LocLongitudes == {0, 2 * LngMax}
LocAccuracies == {<<>>, <<0>>, <<500>>, <<-500>>, <<2000>>}

InitLocation ==
    /\ meetings \in LocTables
    /\ sessions = <<>>
    /\ events = [sid \in SessionIds |-> <<>>]
    /\ workers = [w \in Workers |-> Idle]
    /\ queue = [u \in Contacts |-> {}]
    /\ failed = [u \in Contacts |-> <<>>]
    /\ ttl = [k \in {"offline_queue", "offline_failed"} \X Contacts |-> 0]
    /\ clock = datetime(Epoch, 0)
    /\ issued = {}
    /\ procs = [w \in Workers |-> NoProc]
    /\ located = NoCall

VerifyLocation(user_lat, user_lng, meeting_id, required_accuracy) ==
    /\ located' = [method |-> "verify_location", latitude |-> user_lat,
                   longitude |-> user_lng, accuracy |-> required_accuracy,
                   meeting_id |-> meeting_id,
                   result |-> verify_location(meetings, user_lat, user_lng, meeting_id,
                                              required_accuracy)]
    /\ UNCHANGED <<svars, ovars>>

IsLocationValid(latitude, longitude, accuracy) ==
    /\ located' = [method |-> "is_location_valid", latitude |-> latitude,
                   longitude |-> longitude, accuracy |-> accuracy, meeting_id |-> "",
                   result |-> is_location_valid(latitude, longitude, accuracy)]
    /\ UNCHANGED <<svars, ovars>>

NextLocation ==
    \/ \E lat \in LocLatitudes, lng \in LocLongitudes, m \in AnyMeetingId,
          acc \in LocAccuracies : VerifyLocation(lat, lng, m, acc)
    \/ \E lat \in LocLatitudes, lng \in LocLongitudes, acc \in LocAccuracies :
          IsLocationValid(lat, lng, acc)

SpecLocation == InitLocation /\ [][NextLocation]_vars

\* ------------------------------------------------------------------- claims
\* the events of a type in a session's history
EventsOfType(ev, sid, type) == {i \in 1..Len(ev[sid]) : ev[sid][i].type = type}

\* C1: when the calls run one at a time, every participant has at most one
\* session whose status is ACTIVE or CHECKED_IN.
C1_AtMostOneLiveSession ==
    \A c \in Contacts : Cardinality(LiveSessions(sessions, c)) <= 1

\* a participant whose live session was created while an earlier one was
\* live, which create_session ended
C1_Witness ==
    \E i, j \in 1..Len(sessions) :
        /\ i < j
        /\ sessions[i].contact_id = sessions[j].contact_id
        /\ sessions[i].status = ENDED /\ sessions[i].is_complete
        /\ sessions[j].status \in LiveStatus

\* C2: two create_session calls of one participant that overlap leave the
\* participant with at most one live session once both have returned.
C2_OverlappingCreateKeepsOneLive ==
    \A c \in Contacts :
        (\A w \in Workers : /\ workers[w].pc = "done"
                            /\ workers[w].op = "create_session"
                            /\ workers[w].contact_id = c
                            /\ workers[w].overlapped)
        => Cardinality(LiveSessions(sessions, c)) <= 1

LegalTransitions ==
    {<<ACTIVE, CHECKED_IN>>, <<CHECKED_IN, COMPLETED>>, <<ACTIVE, ENDED>>,
     <<CHECKED_IN, ENDED>>}

\* C3: every change of a session's status is ACTIVE->CHECKED_IN,
\* CHECKED_IN->COMPLETED, ACTIVE->ENDED or CHECKED_IN->ENDED, and end_session
\* on a COMPLETED or ENDED session fails and leaves the status unchanged.
C3_OnlyLegalTransitions ==
    [][ /\ \A sid \in 1..Len(sessions) :
              sessions'[sid].status # sessions[sid].status
              => <<sessions[sid].status, sessions'[sid].status>> \in LegalTransitions
        /\ \A sid \in 1..Len(sessions), reason \in Reasons, t \in Times :
              (sessions[sid].status \in {COMPLETED, ENDED}
               /\ EndSession(sid, reason, t, 0))
              => /\ end_session(sessions, events, sid, reason, t, FALSE).ret.msg = "False"
                 /\ sessions'[sid].status = sessions[sid].status ]_vars

\* C4: check_in on a session that is not ACTIVE fails with a conflict
\* outcome and changes neither the status nor the event history.
C4_CheckInNotActiveConflicts ==
    \A sid \in 1..Len(sessions), loc \in Samples, t \in Times, f \in Faults :
        sessions[sid].status # ACTIVE
        => LET r == check_in(meetings, sessions, events, sid, loc, t, f)
           IN /\ r.ret.kind = "ConflictError"
              /\ r.sessions = sessions
              /\ r.events = events

\* the location is inside the geofence of the session's meeting
InsideRadius(sid, loc) ==
    LET meeting == meetings[sessions[sid].meeting_id]
    IN geodesic(meeting.lat, meeting.lng, loc.latitude, loc.longitude)
            <= meeting.radius_meters

HasMeeting(sid) == sessions[sid].meeting_id \in DOMAIN meetings

NumEvents(ev, sid, type) == Cardinality(EventsOfType(ev, sid, type))

\* C5: for a meeting that is not lenient, check_in on an ACTIVE session with
\* a location inside the radius appends exactly one CHECK_IN event and sets
\* the status to CHECKED_IN; with a location outside it returns nothing,
\* appends no event and leaves the status ACTIVE.
C5_CheckInEffect ==
    [][ \A sid \in 1..Len(sessions), loc \in Samples, t \in Times :
          (/\ sessions[sid].status = ACTIVE
           /\ HasMeeting(sid)
           /\ ~is_test_meeting(meetings[sessions[sid].meeting_id]))
          => IF InsideRadius(sid, loc)
             THEN CheckIn(sid, loc, t, 0)
                  => /\ Len(events'[sid]) = Len(events[sid]) + 1
                     /\ events'[sid][Len(events'[sid])].type = CHECK_IN
                     /\ SubSeq(events'[sid], 1, Len(events[sid])) = events[sid]
                     /\ sessions'[sid].status = CHECKED_IN
             ELSE LET r == check_in(meetings, sessions, events, sid, loc, t, 0)
                  IN /\ r.ret = RetNone
                     /\ r.events = events
                     /\ r.sessions[sid].status = ACTIVE ]_vars

\* C6: check_out succeeds only on a CHECKED_IN session with a location within
\* range, and then appends exactly one CHECK_OUT event and sets the status to
\* COMPLETED; otherwise it appends no event and leaves the status unchanged.
C6_CheckOutEffect ==
    [][ \A sid \in 1..Len(sessions), loc \in Samples, t \in Times :
          IF sessions[sid].status = CHECKED_IN /\ HasMeeting(sid) /\ InsideRadius(sid, loc)
          THEN CheckOut(sid, loc, t, 0)
               => /\ Len(events'[sid]) = Len(events[sid]) + 1
                  /\ events'[sid][Len(events'[sid])].type = CHECK_OUT
                  /\ SubSeq(events'[sid], 1, Len(events[sid])) = events[sid]
                  /\ sessions'[sid].status = COMPLETED
          ELSE LET r == check_out(meetings, sessions, events, sid, loc, t, 0)
               IN /\ r.ret = RetNone
                  /\ r.events = events
                  /\ r.sessions[sid].status = sessions[sid].status ]_vars

\* C7: a check_in or check_out call is all-or-nothing, also when a commit
\* fails: it appends an event exactly if it advances the status, so after it
\* no session that is still ACTIVE has a persisted CHECK_IN event and no
\* session that is still CHECKED_IN a persisted CHECK_OUT event.
C7_CheckInOutAtomic ==
    [][ \A sid \in 1..Len(sessions), loc \in Samples, t \in Times, f \in Faults :
          (CheckIn(sid, loc, t, f) \/ CheckOut(sid, loc, t, f))
          => /\ (events'[sid] # events[sid])
                    <=> (sessions'[sid].status # sessions[sid].status)
             /\ sessions'[sid].status = ACTIVE
                    => NumEvents(events', sid, CHECK_IN) = NumEvents(events, sid, CHECK_IN)
             /\ sessions'[sid].status = CHECKED_IN
                    => NumEvents(events', sid, CHECK_OUT) = NumEvents(events, sid, CHECK_OUT)
      ]_vars

\* C8: of two check_in requests for one ACTIVE session that overlap, at most
\* one succeeds, and the session's history holds at most one CHECK_IN event.
C8_OverlappingCheckInOnce ==
    \A sid \in 1..Len(sessions) :
        (\A w \in Workers : /\ workers[w].pc = "done"
                            /\ workers[w].op = "check_in"
                            /\ workers[w].session_id = sid
                            /\ workers[w].overlapped)
        => /\ \E w \in Workers : workers[w].ret = RetNone
           /\ NumEvents(events, sid, CHECK_IN) <= 1

\* C9: create_session with a valid active meeting for a participant with a
\* live session ends that session (status ENDED) with a STATUS_CHANGE event
\* appended to its history and creates the new session ACTIVE.
C9_CreateEndsPriorWithEvent ==
    [][ \A c \in Contacts, m \in MeetingIds :
          LET prior == get_active_session(sessions, c)
          IN (/\ prior # None
              /\ MeetingCheck(meetings, m) = "ok"
              /\ CreateSession(c, m, 0))
             => /\ sessions'[prior].status = ENDED
                /\ Len(events'[prior]) = Len(events[prior]) + 1
                /\ events'[prior][Len(events'[prior])].type = STATUS_CHANGE
                /\ Len(sessions') = Len(sessions) + 1
                /\ sessions'[Len(sessions')].status = ACTIVE
                /\ sessions'[Len(sessions')].contact_id = c ]_vars

\* C10: a successful end_session appends exactly one STATUS_CHANGE event
\* carrying the reason to the session's history and no event of another type.
C10_EndAppendsStatusChange ==
    [][ \A sid \in 1..Len(sessions), reason \in Reasons, t \in Times :
          EndSession(sid, reason, t, 0)
          => /\ Len(events'[sid]) = Len(events[sid]) + 1
             /\ SubSeq(events'[sid], 1, Len(events[sid])) = events[sid]
             /\ events'[sid][Len(events'[sid])].type = STATUS_CHANGE
             /\ events'[sid][Len(events'[sid])].notes = <<reason>> ]_vars

PendingIds(q, user_id) == {e.member.id : e \in q[user_id]}
FailedIds(fl, user_id) == {fl[user_id][i].id : i \in 1..Len(fl[user_id])}

\* an earlier process_operation of the operation with this id succeeded
ProcessedBefore(id) ==
    \E v \in Workers : \E i \in 1..Len(procs[v].done) :
        procs[v].done[i].operation.id = id /\ procs[v].done[i].success

\* C12: when a check_in operation that has put its session in CHECKED_IN is
\* processed a second time, the session's history holds exactly one CHECK_IN
\* event afterwards and the status is CHECKED_IN.
C12_ReplayedCheckInOneEvent ==
    [][\A w \in Workers, t \in Times :
          LET operation == Head(procs[w].operations)
              sid == operation.data.session_id
          IN (/\ procs[w].pc = "loop"
              /\ operation.operation_type = "check_in"
              /\ ProcessedBefore(operation.id)
              /\ sid \in 1..Len(sessions)
              /\ sessions[sid].status = CHECKED_IN
              /\ QueueProcess(w, t, FALSE))
             => /\ NumEvents(events', sid, CHECK_IN) = 1
                /\ sessions'[sid].status = CHECKED_IN]_vars

\* C13: process_operation of a check_in operation whose session is already
\* CHECKED_IN returns True, and afterwards the operation is in neither the
\* pending set nor the failed list.
C13_ReplayIsNoOpSuccess ==
    [][\A w \in Workers, t \in Times :
          LET operation == Head(procs[w].operations)
              sid == operation.data.session_id
              u == operation.user_id
          IN (/\ procs[w].pc = "loop"
              /\ operation.operation_type = "check_in"
              /\ sid \in 1..Len(sessions)
              /\ sessions[sid].status = CHECKED_IN
              /\ QueueProcess(w, t, FALSE))
             => /\ process_operation(meetings, sessions, events, TheStore, operation,
                                     clock, t, FALSE).ret
                /\ operation.id \notin PendingIds(queue', u)
                /\ operation.id \notin FailedIds(failed', u)]_vars

\* C14: no queued operation is silently dropped: an operation that was
\* pending before a process_user_queue call is afterwards completed by that
\* call, still pending, or in the failed list; completing one operation
\* removes only that operation from the pending set.
C14_NothingSilentlyDropped ==
    [][\A u \in QueueUsers, t \in Times :
          ProcessUserQueue(u, t, FALSE)
          => \A id \in PendingIds(queue, u) :
                \/ id \in process_user_queue(meetings, sessions, events, TheStore, u,
                                              max_operations, clock, t, FALSE).completed
                \/ id \in PendingIds(queue', u)
                \/ id \in FailedIds(failed', u)]_vars

\* C15: an operation whose attempts all fail is, once process_operation has
\* given it up (retry_count = max_retries = 3), in the failed list and absent
\* from the pending set, so that no later pass executes it again.
C15_FailedLeavesPending ==
    \A u \in QueueUsers : FailedIds(failed, u) \cap PendingIds(queue, u) = {}

\* the operation records stored for a participant, pending and failed
StoredRecords(q, fl, user_id) ==
    {e.member : e \in q[user_id]} \cup {fl[user_id][i] : i \in 1..Len(fl[user_id])}

\* C16: every operation record stored in a pending set or a failed list has
\* retry_count <= max_retries, whatever wrote it and however often it was
\* processed again.
C16_RetryCountBounded ==
    \A u \in Contacts : \A d \in StoredRecords(queue, failed, u) :
        d.retry_count <= d.max_retries

\* a given-up record with retry_count = max_retries is in the failed list
\* while records of earlier attempts are still pending
C16_Witness ==
    \E u \in QueueUsers :
        /\ \E i \in 1..Len(failed[u]) : failed[u][i].retry_count = failed[u][i].max_retries
        /\ \E e \in queue[u] : e.member.retry_count > 0 /\ e.member.last_attempt # <<>>

\* the records of one operation in a participant's failed list
FailedRecords(fl, user_id, id) ==
    {fl[user_id][i] : i \in {j \in 1..Len(fl[user_id]) : fl[user_id][j].id = id}}

\* C17: retry_failed_operation(id) for an operation in the participant's
\* failed list removes it from the failed list and places it in the pending
\* set with retry_count 0 and status pending, keeping its id, type, payload,
\* priority and creation time; for an id that is not in the failed list it
\* returns false and changes neither collection.
C17_RetryMovesFailedToPending ==
    [][\A id \in OpIds, u \in QueueUsers :
          RetryFailedOperation(id, u)
          => IF id \in FailedIds(failed, u)
             THEN /\ retry_failed_operation(TheStore, id, u).ret
                  /\ id \notin FailedIds(failed', u)
                  /\ \E d \in FailedRecords(failed, u, id) : \E e \in queue'[u] :
                        e.member = [d EXCEPT !.retry_count = 0, !.status = "pending"]
             ELSE /\ ~retry_failed_operation(TheStore, id, u).ret
                  /\ queue' = queue
                  /\ failed' = failed]_vars

\* the pending records whose effect a process_user_queue call has executed
Executed(w) == {procs[w].done[i].operation : i \in 1..Len(procs[w].done)}

\* C18: when two process_user_queue calls for one participant overlap, the
\* effect of a pending operation is executed by at most one of them.
C18_EffectExecutedByOneWorker ==
    \A v, w \in Workers :
        (v # w /\ procs[v].user_id = procs[w].user_id) => Executed(v) \cap Executed(w) = {}

\* the operations process_user_queue reads and processes, in order
Listing(user_id) == get_pending_operations(TheStore, user_id, max_operations)

\* C19: of two pending operations of a participant, the one with the higher
\* priority is listed by get_pending_operations, and so processed by
\* process_user_queue, before the one with the lower priority, whatever
\* their creation times.
C19_HigherPriorityFirst ==
    \A u \in QueueUsers : \E operations \in {Listing(u)} :
        \A i, j \in 1..Len(operations) :
            operations[i].priority > operations[j].priority => i < j

\* datetime.__lt__
Earlier(a, b) == a.sec < b.sec \/ (a.sec = b.sec /\ a.usec < b.usec)

\* C20: of two pending operations of a participant with equal priority, the
\* one created earlier is listed by get_pending_operations, and so
\* processed by process_user_queue, first.
C20_EqualPriorityOldestFirst ==
    \A u \in QueueUsers : \E operations \in {Listing(u)} :
        \A i, j \in 1..Len(operations) :
            (/\ operations[i].priority = operations[j].priority
             /\ Earlier(operations[i].created_at, operations[j].created_at)) => i < j

\* the effect of the operation raises: create_session raises ValueError for
\* a meeting that is missing or inactive and RuntimeError after a rollback
EffectRaises(mt, ss, operation) ==
    /\ operation.operation_type = "create_session"
    /\ create_session(mt, ss, operation.data.contact_id, operation.data.meeting_id, 0).ret.kind
           \in {"ValueError", "RuntimeError"}

\* C21: when the effect of an operation raises, process_operation returns
\* False and the operation is stored, in the participant's pending set or
\* failed list, with this attempt's time and a retry_count one higher.
C21_EffectExceptionCounted ==
    [][\A w \in Workers, t \in Times :
          (/\ procs[w].pc = "loop"
           /\ EffectRaises(meetings, sessions, Head(procs[w].operations))
           /\ QueueProcess(w, t, FALSE))
          => LET operation == Head(procs[w].operations)
             IN /\ ~process_operation(meetings, sessions, events, TheStore, operation,
                                      clock, t, FALSE).ret
                /\ \E d \in StoredRecords(queue', failed', operation.user_id) :
                      /\ d.id = operation.id
                      /\ d.retry_count = operation.retry_count + 1
                      /\ d.last_attempt = <<isoformat(clock)>>]_vars

\* a create_session whose effect raised has been processed and is stored
\* with the attempt counted
C21_Witness ==
    \E w \in Workers : \E i \in 1..Len(procs[w].done) :
        LET operation == procs[w].done[i].operation
        IN /\ operation.operation_type = "create_session"
           /\ operation.data.meeting_id = "m2"
           /\ ~procs[w].done[i].success
           /\ \E d \in StoredRecords(queue, failed, operation.user_id) :
                 d.id = operation.id /\ d.retry_count = operation.retry_count + 1

\* C22: processing one participant's queue leaves every other participant's
\* sessions, with their status and events, and every other participant's
\* pending set and failed list as they were, whichever session the payload
\* of an operation names.
C22_OtherParticipantsUntouched ==
    [][\A w \in Workers, t \in Times, raised \in Escaping :
          (procs[w].pc = "loop" /\ QueueProcess(w, t, raised))
          => /\ Len(sessions') >= Len(sessions)
             /\ \A sid \in 1..Len(sessions) :
                   sessions[sid].contact_id # procs[w].user_id
                   => sessions'[sid] = sessions[sid] /\ events'[sid] = events[sid]
             /\ \A sid \in (1..Len(sessions')) \ (1..Len(sessions)) :
                   sessions'[sid].contact_id = procs[w].user_id
             /\ \A v \in Contacts \ {procs[w].user_id} :
                   queue'[v] = queue[v] /\ failed'[v] = failed[v]]_vars

\* C23: a check-in whose sample is_location_valid rejects (latitude outside
\* +-90, longitude outside +-180, accuracy outside the accepted range)
\* appends no event and changes no status, whether the request comes in
\* directly or is replayed from the offline queue.
C23_InvalidSampleChangesNothing ==
    [][/\ \A sid \in SessionIds, sample \in FieldSamples, t \in Times :
             (/\ ~is_location_valid(sample.latitude, sample.longitude, sample.accuracy)
              /\ CheckInEndpoint(sid, sample, t))
             => UNCHANGED <<sessions, events>>
       /\ \A w \in Workers, t \in Times, raised \in Escaping :
             (/\ procs[w].pc = "loop"
              /\ Head(procs[w].operations).operation_type = "check_in"
              /\ ~is_location_valid(Head(procs[w].operations).data.latitude,
                                    Head(procs[w].operations).data.longitude,
                                    Head(procs[w].operations).data.accuracy)
              /\ QueueProcess(w, t, raised))
             => UNCHANGED <<sessions, events>>]_vars

Verified ==
    /\ located.method = "verify_location"
    /\ located.meeting_id \in DOMAIN meetings

\* C26: verify_location reports is_within_range exactly when the distance it
\* computed is at most the radius the meeting holds, for every radius, those
\* above max_radius_meters included.
C26_WithinRangeIffInsideRadius ==
    Verified
    => (located.result.is_within_range
            <=> located.result.distance_meters <= meetings[located.meeting_id].radius_meters)

\* clamp01 of the fraction n / d (d > 0), as a numerator over d
Clamp01(n, d) == Max(0, Min(d, n))

\* the call of verify_location that was made computed a confidence
Scored == Verified /\ located.result.distance_meters # Infinity

\* C27: the confidence is clamp01(1 - distance/radius) times
\* clamp01(1 - accuracy/maxAccuracy), the second factor being 1 without an
\* accuracy; it lies in [0, 1], is 1 at distance 0 with accuracy 0 and is 0
\* at or beyond the radius, for every radius above 0 that a meeting can
\* hold.  The fractions are compared over the denominator
\* radius * maxAccuracy.
C27_ConfidenceFormula ==
    (Scored /\ meetings[located.meeting_id].radius_meters > 0)
    => LET radius == meetings[located.meeting_id].radius_meters
           distance == located.result.distance_meters
           confidence == located.result.accuracy_confidence
           factor == IF located.accuracy = <<>> THEN min_accuracy_meters
                     ELSE Clamp01(min_accuracy_meters - located.accuracy[1],
                                  min_accuracy_meters)
       IN /\ 0 <= confidence.num /\ confidence.num <= confidence.den
          /\ confidence.den = radius * min_accuracy_meters
          /\ confidence.num = Clamp01(radius - distance, radius) * factor
          /\ distance >= radius => confidence.num = 0
          /\ (distance = 0 /\ located.accuracy = <<0>>) => confidence.num = confidence.den

\* C28: verify_location fails closed: for a latitude outside +-90, a
\* longitude outside +-180 or a meeting without a radius (missing or zero)
\* it returns is_within_range False with confidence 0.
C28_FailsClosed ==
    (/\ Verified
     /\ \/ Abs(located.latitude) > LatMax
        \/ Abs(located.longitude) > LngMax
        \/ meetings[located.meeting_id].radius_meters = 0)
    => /\ ~located.result.is_within_range
       /\ located.result.accuracy_confidence.num = 0

\* C29: is_location_valid returns False for every sample with a valid
\* latitude and longitude whose accuracy is present and negative.
C29_NegativeAccuracyRejected ==
    (/\ located.method = "is_location_valid"
     /\ Abs(located.latitude) <= LatMax
     /\ Abs(located.longitude) <= LngMax
     /\ located.accuracy # <<>>
     /\ located.accuracy[1] < 0)
    => located.result = FALSE

\* C30: verify_location against a meeting that is not active never reports
\* within range, not even at the meeting's centre.
C30_InactiveMeetingNeverInRange ==
    (Verified /\ ~meetings[located.meeting_id].is_active)
    => ~located.result.is_within_range

\* the call of verify_location that was made had a perfect accuracy and a
\* meeting with a radius
PerfectAccuracy ==
    /\ Scored
    /\ located.accuracy = <<0>>
    /\ meetings[located.meeting_id].radius_meters > 0

FailureCause(session_id, location_data) ==
    IF \/ ~SessionEventCreate(location_data)
       \/ ~is_location_valid(location_data.latitude, location_data.longitude,
                             location_data.accuracy)
    THEN "invalid sample"
    ELSE IF SessionLoad(sessions, session_id, ACTIVE) # "ok"
    THEN SessionLoad(sessions, session_id, ACTIVE)
    ELSE IF sessions[session_id].meeting_id \notin DOMAIN meetings THEN "no meeting"
    ELSE IF ~verify_location(meetings, location_data.latitude, location_data.longitude,
                             sessions[session_id].meeting_id,
                             location_data.accuracy).is_within_range
    THEN "out of range"
    ELSE "none"

\* C32: two check-in requests that fail for different causes (unknown
\* session, session in the wrong state, location out of range, invalid
\* sample) get different answers.
C32_FailureCausesDistinguishable ==
    \A sidA, sidB \in SessionIds, a, b \in FieldSamples \cup Samples :
        (/\ FailureCause(sidA, a) \in {"invalid sample", "not found", "wrong status",
                                       "out of range"}
         /\ FailureCause(sidB, b) \in {"invalid sample", "not found", "wrong status",
                                       "out of range"}
         /\ FailureCause(sidA, a) # FailureCause(sidB, b))
        => check_in_endpoint(meetings, sessions, events, sidA, a, 1).ret
              # check_in_endpoint(meetings, sessions, events, sidB, b, 1).ret

\* what a successful create_session hands to its caller: the Session row
\* it created
Created(r) == [ret |-> r.ret, session |-> r.sessions[r.ret.id]]

\* C33: a create_session that ended a prior live session returns a result
\* that differs from the one it returns when that session had already been
\* ended, so that the caller learns that a session was closed.
C33_ResultTellsPriorSessionClosed ==
    \A c \in Contacts, m \in MeetingIds :
        LET existing_session == get_active_session(sessions, c)
        IN (/\ existing_session # None
            /\ create_session(meetings, sessions, c, m, 0).ret.kind = "Session")
           => Created(create_session(meetings, sessions, c, m, 0))
                 # Created(create_session(meetings, EndExisting(sessions, existing_session),
                                          c, m, 0))

\* C34: for a meeting that check_in takes for a test meeting (its name holds
\* "AYA Demo" or its radius is 5000 or more), check_in on an ACTIVE session
\* from outside the radius is accepted: it returns the event, a CHECK_IN
\* event is appended and the session becomes CHECKED_IN.
C34_TestMeetingAcceptsOutOfRange ==
    \A sid \in 1..Len(sessions), loc \in GeoSamples, t \in Stamps :
        (/\ sessions[sid].status = ACTIVE
         /\ HasMeeting(sid)
         /\ is_test_meeting(meetings[sessions[sid].meeting_id])
         /\ ~InsideRadius(sid, loc))
        => \E r \in {check_in(meetings, sessions, events, sid, loc, t, 0)} :
              /\ r.ret.kind = "SessionEvent"
              /\ r.sessions[sid].status = CHECKED_IN
              /\ NumEvents(r.events, sid, CHECK_IN) > NumEvents(events, sid, CHECK_IN)

\* C35: repeated calls of process_user_queue empty the pending set.  A call
\* is a function of the sessions and the stored records, so a call that
\* finds operations pending and leaves the pending set, the failed list,
\* the sessions and the events as they were is repeated by every later
\* call, and the pending set never empties: no call may be such a call.
C35_PendingSetDrains ==
    [][\A u \in QueueUsers, t \in Times, raised \in Escaping :
          (queue[u] # {} /\ ProcessUserQueue(u, t, raised))
          => ~(/\ queue' = queue
               /\ failed' = failed
               /\ sessions' = sessions
               /\ events' = events)]_vars

\* the positions of the events of a type in a session's history
Positions(sid, type) == {i \in 1..Len(events[sid]) : events[sid][i].type = type}

\* C36: after operations executed one at a time the history of every
\* session fits its status: no CHECK_IN or CHECK_OUT event while ACTIVE,
\* exactly one CHECK_IN and no CHECK_OUT event while CHECKED_IN, exactly one
\* CHECK_IN followed by exactly one CHECK_OUT event when COMPLETED.
C36_HistoryFitsStatus ==
    \A sid \in 1..Len(sessions) :
        LET ins == Positions(sid, CHECK_IN)
            outs == Positions(sid, CHECK_OUT)
        IN /\ sessions[sid].status = ACTIVE => ins = {} /\ outs = {}
           /\ sessions[sid].status = CHECKED_IN => Cardinality(ins) = 1 /\ outs = {}
           /\ sessions[sid].status = COMPLETED
              => /\ Cardinality(ins) = 1
                 /\ Cardinality(outs) = 1
                 /\ \A i \in ins, j \in outs : i < j

\* C37: each operation id occurs at most once across a participant's
\* pending set and failed list taken together: no two pending records and
\* no two failed records share an id, and no id is pending and failed.
C37_OneRecordPerOperation ==
    \A u \in Contacts :
        /\ \A e, f \in queue[u] : e.member.id = f.member.id => e = f
        /\ \A i, j \in 1..Len(failed[u]) : failed[u][i].id = failed[u][j].id => i = j
        /\ \A e \in queue[u], i \in 1..Len(failed[u]) : e.member.id # failed[u][i].id

\* the sessions created by create_general_session: meeting_id is None
GeneralSessions == {sid \in 1..Len(sessions) : sessions[sid].meeting_id = "None"}

\* C38: a general session is never checked in: every check_in on it returns
\* nothing and changes nothing, and its status is ACTIVE until it is ENDED;
\* and create_general_session for a participant who has a live session
\* returns that session and neither creates nor ends a session.
C38_GeneralSessionNeverCheckedIn ==
    /\ \A sid \in GeneralSessions :
          /\ sessions[sid].status \in {ACTIVE, ENDED}
          /\ \A loc \in Samples, t \in Times :
                check_in(meetings, sessions, events, sid, loc, t, 0)
                    = [sessions |-> sessions, events |-> events, ret |-> RetNone]
    /\ \A c \in Contacts :
          LiveSessions(sessions, c) # {}
          => \E r \in {create_general_session(sessions, c, FALSE)} :
                /\ r.sessions = sessions
                /\ r.ret.kind = "Session"
                /\ r.ret.id \in LiveSessions(sessions, c)

====
